---- MODULE Spec2Model ----
(***************************************************************************)
(* Gesture recognition pipeline of BigRedHacks: the per-frame loop of      *)
(* GestureRecognitionApp (src/run.py) fed by GestureRecognizer             *)
(* (src/gesture_recognition.py).                                           *)
(*                                                                         *)
(* Time is counted in ticks of 0.05 s, so that the 0.2 s end cooldown, the *)
(* 2.0 s gesture cooldown and the 3.0 s exit grace period are all whole    *)
(* numbers of ticks and frames may arrive several times within 0.2 s.      *)
(* One call of process_frame reads the clock several times within a few    *)
(* microseconds; all of those reads see the same tick.                     *)
(***************************************************************************)
EXTENDS Integers, Sequences, FiniteSets, TLC

VARIABLES
    now,                        \* wall clock (time.time()) at the latest call
    running,                    \* GestureRecognitionApp.running
    frames_processed,
    gestures_detected,
    camera_paused,
    last_gesture_time,          \* dict: gesture -> time of last accepted single gesture
    active_gestures,            \* dict: gesture -> {start_time, frames_held}
    last_detected_gesture,
    gesture_state_cooldown,     \* dict: "<gesture>_ended" -> time
    last_gesture_end_time,
    showing_exit_message,
    exit_message_start_time,
    exit_initiated,
    last_gesture,               \* GestureRecognizer.last_gesture
    recognizer_last_gesture_time, \* GestureRecognizer.last_gesture_time
    raw_gesture,                \* classify_gesture's result in the latest call
    detected_gesture,           \* the label process_frame received in the latest call
    dispatched,                 \* events handed to dispatch threads by the latest call
    result,                     \* what the latest process_frame call returned, and why
    streak,                     \* consecutive frames carrying detected_gesture since its (L, started)
    calls,                      \* number of process_frame calls made by run()
    shutdown_signals,           \* number of False returns caused by the exit sequence
    flicker,                    \* how far the latest raw labels spell thumbs_up, fist, thumbs_up
    \* ActionsClient (src/actions_client.py) and the dispatch threads
    use_websocket,
    ws_connected,
    gestures_sent,
    successful_sends,
    failed_sends,
    threads,                    \* the threads that run or ran send_gesture, in start order
    \* CameraStreamer (src/camera_streamer.py)
    streaming,
    frame_data,                 \* the slot: the number of the frame it holds
    frame_lock,                 \* "free", or who holds it: "update" or "relay"
    frames_captured,            \* number of update_frame calls begun
    encoded_frame,              \* the frame update_frame is about to store
    update_pc,                  \* where update_frame stands
    relay_pc,                   \* where _stream_loop stands
    relay_frame,                \* the frame last handed to _send_frame_to_server
    last_stored,                \* the frame stored by the latest completed update_frame
    seen_stored,                \* last_stored when the relay last acquired the lock
    \* GestureRecognizer.detect_wave (src/gesture_recognition.py)
    hand_positions,             \* the window: wrist x of the samples kept
    last_wave_time,
    wave_result,                \* what the latest detect_wave call returned
    wave_x,                     \* wrist x of the latest sample
    wave_detected_at,           \* time of the latest call that returned True
    wave_detections,            \* number of calls that returned True
    script,                     \* how far the calls so far follow the scenario WaveScript
    \* GestureRecognizer._smooth_gesture
    gesture_history,            \* (label, time) pairs
    smooth_input,               \* the argument of the latest _smooth_gesture call
    smooth_result,              \* what it returned
    smooth_results,             \* what its latest calls returned, up to three
    \* GestureRecognizer.classify_gesture: the latest call
    fingers_up,
    wave_reported,              \* what detect_wave returned to it
    thumb_position,
    thumb_index_close,          \* thumb tip to index tip distance < 0.05
    index_middle_separated,     \* index tip to middle tip distance > 0.08
    classified                  \* what it returned

trackVars == <<now, running, frames_processed, gestures_detected, camera_paused,
          last_gesture_time, active_gestures, last_detected_gesture,
          gesture_state_cooldown, last_gesture_end_time, showing_exit_message,
          exit_message_start_time, exit_initiated, last_gesture,
          recognizer_last_gesture_time, raw_gesture, detected_gesture,
          dispatched, result, streak, calls, shutdown_signals, flicker>>

clientVars == <<use_websocket, ws_connected, gestures_sent, successful_sends,
                failed_sends, threads>>

relayVars == <<streaming, frame_data, frame_lock, frames_captured, encoded_frame,
               update_pc, relay_pc, relay_frame, last_stored, seen_stored>>

waveVars == <<hand_positions, last_wave_time, wave_result, wave_x,
              wave_detected_at, wave_detections, script>>

smootherVars == <<gesture_history, smooth_input, smooth_result, smooth_results>>

classifierVars == <<fingers_up, wave_reported, thumb_position, thumb_index_close,
                    index_middle_separated, classified>>

\* What the frame loop, taken on its own, leaves alone.
sideVars == <<clientVars, relayVars, waveVars, smootherVars, classifierVars>>

classifierRest == <<trackVars, clientVars, relayVars, waveVars, smootherVars>>

\* What the client, the relay, the wave detector and the smoother leave alone.
clientRest == <<trackVars, relayVars, waveVars, smootherVars, classifierVars>>

relayRest == <<trackVars, clientVars, waveVars, smootherVars, classifierVars>>

waveRest == <<running, frames_processed, gestures_detected, camera_paused,
              last_gesture_time, active_gestures, last_detected_gesture,
              gesture_state_cooldown, last_gesture_end_time, showing_exit_message,
              exit_message_start_time, exit_initiated, last_gesture,
              recognizer_last_gesture_time, raw_gesture, detected_gesture,
              dispatched, result, streak, calls, shutdown_signals, flicker,
              clientVars, relayVars, smootherVars, classifierVars>>

smootherRest == <<running, frames_processed, gestures_detected, camera_paused,
                  last_gesture_time, active_gestures, last_detected_gesture,
                  gesture_state_cooldown, last_gesture_end_time, showing_exit_message,
                  exit_message_start_time, exit_initiated, last_gesture,
                  recognizer_last_gesture_time, raw_gesture, detected_gesture,
                  dispatched, result, streak, shutdown_signals, flicker,
                  clientVars, relayVars, waveVars, classifierVars>>

vars == <<trackVars, sideVars>>

appVars == <<gestures_detected, camera_paused, last_gesture_time, active_gestures,
             last_detected_gesture, gesture_state_cooldown, last_gesture_end_time,
             showing_exit_message, exit_message_start_time, exit_initiated>>

----------------------------------------------------------------------------
(* Bounds of the exploration *)

MaxCalls == 5

MaxTime == 70

\* Time between two process_frame calls, in ticks: 0.05 s, 2.1 s, 3.0 s.
Dts == {1, 42, 60}

----------------------------------------------------------------------------
(* Values *)

NoGesture == "none"         \* Python None as a gesture label

NoState == "none"           \* Python None as a gesture state

NoTime == -1                \* Python None as a timestamp

NoFrame == 0                \* Python None in the frame slot

\* The clock starts at 0 with the program; Epoch is where time.time() = 0
\* lies on it, further back than any cooldown reaches.
Epoch == -1000

\* _determine_gesture_state's set of continuous gestures
continuous_gestures == {"call", "peace", "thumbs_up", "thumbs_down"}

\* GestureRecognizer.continuous_gestures: the labels that bypass its cooldown
recognizer_continuous_gestures == {"thumbs_up", "thumbs_down"}

\* Labels handed to the tracker: the continuous ones, the two control
\* gestures, and two of the single-action labels (all single-action labels
\* other than the control gestures take the same path through process_frame).
TrackerLabels == continuous_gestures \cup {"call_sign", "middle_finger", "fist", "pointing"}

\* Labels classify_gesture returns that the pipeline is explored with.
ClassifierLabels == continuous_gestures \cup {"middle_finger", "fist"}

gesture_cooldown == 40              \* 2.0 s

call_sign_cooldown == 120           \* 6.0 s

gesture_state_cooldown_time == 4    \* 0.2 s

exit_grace == 60                    \* 3.0 s

recognizer_gesture_cooldown == 60   \* 3.0 s

----------------------------------------------------------------------------
(* Python dicts as functions with a growing and shrinking domain *)

EmptyDict == <<>>

DictSet(d, k, v) == [x \in DOMAIN d \cup {k} |-> IF x = k THEN v ELSE d[x]]

DictDel(d, k) == [x \in DOMAIN d \ {k} |-> d[x]]

----------------------------------------------------------------------------
(* actions_client.py: the label mapping *)

GESTURE_MAPPINGS ==
    [g \in {"fist", "open_palm", "thumbs_up", "peace", "call_sign", "pointing",
            "l_shape", "rock_sign", "ok_sign", "three_fingers", "three_fingers_v2",
            "middle_finger", "ring_finger", "pinky", "two_fingers_ir",
            "two_fingers_mr", "four_fingers"} |-> g]

map_gesture_name(g) ==
    IF g \in DOMAIN GESTURE_MAPPINGS THEN GESTURE_MAPPINGS[g] ELSE g

\* The arguments process_frame hands to a new _send_gesture_async thread.
Event(g, state) == [gesture |-> map_gesture_name(g), gestureState |-> state]

----------------------------------------------------------------------------
(* GestureRecognizer.process_frame: the same-gesture cooldown *)

\* should_detect
should_detect(gesture, t) ==
    \/ gesture # last_gesture
    \/ t - recognizer_last_gesture_time > recognizer_gesture_cooldown
    \/ gesture \in recognizer_continuous_gestures

\* The label GestureRecognizer.process_frame returns for classify_gesture's
\* result raw (NoGesture: no hand, or no rule matched).
recognizer_detected(raw, t) ==
    IF raw # NoGesture /\ should_detect(raw, t) THEN raw ELSE NoGesture

----------------------------------------------------------------------------
(* GestureRecognitionApp: the helpers of process_frame *)

EndedKey(g) == g \o "_ended"

\* Mutant of end_cooldown_elapsed: no end cooldown.
end_cooldown_elapsed_always(gesture_key, t) == TRUE

\* The end cooldown test of _determine_gesture_state
end_cooldown_elapsed(gesture_key, t) ==
    \/ gesture_key \notin DOMAIN gesture_state_cooldown
    \/ t - gesture_state_cooldown[gesture_key] > gesture_state_cooldown_time

\* Mutant of determine_gesture_state: the test for an active gesture is lost,
\* so a continuous label that is held is reported as started again.
determine_gesture_state_no_held(g, t) ==
    IF g = NoGesture
    THEN IF /\ last_detected_gesture # NoGesture
            /\ last_detected_gesture \in continuous_gestures
            /\ end_cooldown_elapsed(EndedKey(last_detected_gesture), t)
         THEN "ended"
         ELSE NoState
    ELSE IF g \in continuous_gestures THEN "started" ELSE "detected"

\* Mutant of determine_gesture_state: a continuous label is reported as
\* held whether it is active or not.
determine_gesture_state_always_held(g, t) ==
    IF g = NoGesture
    THEN IF /\ last_detected_gesture # NoGesture
            /\ last_detected_gesture \in continuous_gestures
            /\ end_cooldown_elapsed(EndedKey(last_detected_gesture), t)
         THEN "ended"
         ELSE NoState
    ELSE IF g \in continuous_gestures THEN "held" ELSE "detected"

\* _determine_gesture_state: its return value
determine_gesture_state(g, t) ==
    IF g = NoGesture
    THEN IF /\ last_detected_gesture # NoGesture
            /\ last_detected_gesture \in continuous_gestures
         THEN IF end_cooldown_elapsed(EndedKey(last_detected_gesture), t)
              THEN "ended"
              ELSE NoState
         ELSE NoState
    ELSE IF g \in continuous_gestures
         THEN IF g \in DOMAIN active_gestures
              THEN "held"
              ELSE IF g # last_detected_gesture THEN "started" ELSE "started"
         ELSE "detected"

\* _determine_gesture_state: its one side effect, the end cooldown stamp
cooldown_after_determine(g, t) ==
    IF g = NoGesture /\ determine_gesture_state(g, t) = "ended"
    THEN DictSet(gesture_state_cooldown, EndedKey(last_detected_gesture), t)
    ELSE gesture_state_cooldown

\* The test both callers of _stop_continuous_gesture make before the call
last_is_active ==
    last_detected_gesture # NoGesture /\ last_detected_gesture \in DOMAIN active_gestures

\* _stop_continuous_gesture: active_gestures after the call
stop_continuous_gesture(active, gesture) ==
    IF gesture \in DOMAIN active THEN DictDel(active, gesture) ELSE active

\* Mutant of last_after_stop: last_detected_gesture is not cleared.
last_after_stop_kept(last, gesture) == last

\* _stop_continuous_gesture: last_detected_gesture after the call
last_after_stop(last, gesture) ==
    IF last = gesture THEN NoGesture ELSE last

\* _start_continuous_gesture: active_gestures after the call
start_continuous_gesture(active, gesture, t) ==
    DictSet(active, gesture, [start_time |-> t, frames_held |-> 0])

\* Mutant of stops_previous: a new continuous gesture is started without
\* stopping the one that is active.
stops_previous_never(g) == FALSE

\* process_frame, gesture_state == "started": whether the previous continuous
\* gesture is stopped first
stops_previous(g) == g # last_detected_gesture /\ last_is_active

\* _handle_single_gesture: the cooldown test that makes it return early
in_cooldown(gesture, t) ==
    /\ gesture \in DOMAIN last_gesture_time
    /\ t - last_gesture_time[gesture] <
          (IF gesture = "call_sign" THEN call_sign_cooldown ELSE gesture_cooldown)

\* process_frame: the goodbye message has been shown for 3 seconds
exit_due(t) ==
    /\ showing_exit_message
    /\ exit_message_start_time # NoTime /\ exit_message_start_time # 0
    /\ t - exit_message_start_time >= exit_grace

\* Mutant of run_continues: the loop ignores what process_frame returns.
run_continues_always(ret) == TRUE

\* run: the loop goes on after process_frame returned ret; otherwise it breaks
\* and stop() clears running
run_continues(ret) == ret \in {"continue", "read_failed"}

\* process_frame: the quit key is checked on the calls that reach the display
after_display(key) == IF key = "q" THEN "quit_key" ELSE "continue"

\* The number of frames in a row, up to 2, that carried the continuous label g
\* since a frame on which it was not active (tracker not paused, exit not
\* initiated); 3 marks the first no-gesture frame after two or more of them.
streak_after(g) ==
    IF camera_paused \/ exit_initiated THEN 0
    ELSE IF g = NoGesture THEN (IF streak = 2 THEN 3 ELSE 0)
    ELSE IF g \notin continuous_gestures THEN 0
    ELSE IF g \notin DOMAIN active_gestures THEN 1
    ELSE IF streak \in {1, 2} /\ detected_gesture = g THEN 2
    ELSE 0

----------------------------------------------------------------------------
(* The state after GestureRecognitionApp.__init__ and start() *)

ClientInit ==
    /\ use_websocket = FALSE
    /\ ws_connected = FALSE
    /\ gestures_sent = 0
    /\ successful_sends = 0
    /\ failed_sends = 0
    /\ threads = <<>>

\* CameraStreamer.__init__ and start_streaming()
RelayInit ==
    /\ streaming = TRUE
    /\ frame_data = NoFrame
    /\ frame_lock = "free"
    /\ frames_captured = 0
    /\ encoded_frame = 0
    /\ update_pc = "idle"
    /\ relay_pc = "loop"
    /\ relay_frame = 0
    /\ last_stored = 0
    /\ seen_stored = 0

\* GestureRecognizer.__init__: the wave detector
WaveInit ==
    /\ hand_positions = <<>>
    /\ last_wave_time = Epoch
    /\ wave_result = FALSE
    /\ wave_x = 0
    /\ wave_detected_at = NoTime
    /\ wave_detections = 0
    /\ script = 0

\* GestureRecognizer.__init__: the smoother
SmootherInit ==
    /\ gesture_history = <<>>
    /\ smooth_input = NoGesture
    /\ smooth_result = NoGesture
    /\ smooth_results = <<>>

\* No hand has been classified yet.
ClassifierInit ==
    /\ fingers_up = [i \in 0 .. 4 |-> FALSE]
    /\ wave_reported = FALSE
    /\ thumb_position = "level"
    /\ thumb_index_close = FALSE
    /\ index_middle_separated = FALSE
    /\ classified = NoGesture

Init ==
    /\ ClientInit
    /\ RelayInit
    /\ WaveInit
    /\ SmootherInit
    /\ ClassifierInit
    /\ now = 0
    /\ running = TRUE
    /\ frames_processed = 0
    /\ gestures_detected = 0
    /\ camera_paused = FALSE
    /\ last_gesture_time = EmptyDict
    /\ active_gestures = EmptyDict
    /\ last_detected_gesture = NoGesture
    /\ gesture_state_cooldown = EmptyDict
    /\ last_gesture_end_time = NoTime
    /\ showing_exit_message = FALSE
    /\ exit_message_start_time = NoTime
    /\ exit_initiated = FALSE
    /\ last_gesture = NoGesture
    /\ recognizer_last_gesture_time = 0
    /\ raw_gesture = NoGesture
    /\ detected_gesture = NoGesture
    /\ dispatched = <<>>
    /\ result = "none"
    /\ streak = 0
    /\ calls = 0
    /\ shutdown_signals = 0
    /\ flicker = 0

----------------------------------------------------------------------------
(* process_frame, from the exit check on, for the label g the recognizer   *)
(* returned, at time t, with key the key read by cv2.waitKey               *)

\* The goodbye message has been shown for 3 seconds: return False.
ExitReturn ==
    /\ result' = "exit"
    /\ shutdown_signals' = shutdown_signals + 1
    /\ dispatched' = <<>>
    /\ UNCHANGED appVars

\* An early "return True" that changes nothing.
Ignored ==
    /\ result' = "continue"
    /\ dispatched' = <<>>
    /\ UNCHANGED <<gestures_detected, camera_paused, last_gesture_time, active_gestures,
                   last_detected_gesture, last_gesture_end_time, showing_exit_message,
                   exit_message_start_time, exit_initiated>>

\* The middle finger gesture: show the goodbye message, once.
Announce(t) ==
    /\ IF ~showing_exit_message
       THEN /\ showing_exit_message' = TRUE
            /\ exit_message_start_time' = t
            /\ exit_initiated' = TRUE
       ELSE UNCHANGED <<showing_exit_message, exit_message_start_time, exit_initiated>>
    /\ result' = "continue"
    /\ dispatched' = <<>>
    /\ UNCHANGED <<gestures_detected, camera_paused, last_gesture_time, active_gestures,
                   last_detected_gesture, last_gesture_end_time>>

\* Mutant of TogglePause: call_sign goes through the single-gesture cooldown
\* bookkeeping before it toggles.
TogglePauseStamped ==
    /\ camera_paused' = ~camera_paused
    /\ last_gesture_time' = DictSet(last_gesture_time, "call_sign", now')
    /\ gestures_detected' = gestures_detected + 1
    /\ result' = "continue"
    /\ dispatched' = <<>>
    /\ UNCHANGED <<active_gestures, last_detected_gesture, last_gesture_end_time,
                   showing_exit_message, exit_message_start_time, exit_initiated>>

\* The call sign gesture: pause or resume.
TogglePause ==
    /\ camera_paused' = ~camera_paused
    /\ result' = "continue"
    /\ dispatched' = <<>>
    /\ UNCHANGED <<gestures_detected, last_gesture_time, active_gestures,
                   last_detected_gesture, last_gesture_end_time, showing_exit_message,
                   exit_message_start_time, exit_initiated>>

\* Any other label with the tracker neither paused nor exiting: update the
\* tracking for gesture_state, then start the dispatch thread.
Act(g, gesture_state, t, key) ==
    /\ IF gesture_state = "started"
       THEN LET stop == stops_previous(g)
                active1 == IF stop
                           THEN stop_continuous_gesture(active_gestures, last_detected_gesture)
                           ELSE active_gestures
            IN /\ active_gestures' = start_continuous_gesture(active1, g, t)
               /\ last_detected_gesture' = g
               /\ last_gesture_end_time' = IF stop THEN t ELSE last_gesture_end_time
               /\ UNCHANGED <<last_gesture_time, gestures_detected>>
       ELSE IF gesture_state = "ended"
       THEN /\ active_gestures' =
                  IF last_is_active
                  THEN stop_continuous_gesture(active_gestures, last_detected_gesture)
                  ELSE active_gestures
            /\ last_detected_gesture' =
                  IF last_is_active
                  THEN last_after_stop(last_detected_gesture, last_detected_gesture)
                  ELSE last_detected_gesture
            /\ last_gesture_end_time' = IF last_is_active THEN t ELSE last_gesture_end_time
            /\ UNCHANGED <<last_gesture_time, gestures_detected>>
       ELSE IF gesture_state = "detected"
       THEN /\ IF in_cooldown(g, t)
               THEN UNCHANGED <<last_gesture_time, gestures_detected>>
               ELSE /\ last_gesture_time' = DictSet(last_gesture_time, g, t)
                    /\ gestures_detected' = gestures_detected + 1
            /\ UNCHANGED <<active_gestures, last_detected_gesture, last_gesture_end_time>>
       ELSE UNCHANGED <<last_gesture_time, gestures_detected, active_gestures,
                        last_detected_gesture, last_gesture_end_time>>
    /\ dispatched' = <<Event(g, gesture_state)>>
    /\ result' = after_display(key)
    /\ UNCHANGED <<camera_paused, showing_exit_message, exit_message_start_time,
                   exit_initiated>>

\* No gesture, and the continuous gesture that was active ends.
EndOnNoGesture(t, key) ==
    /\ dispatched' = <<Event(last_detected_gesture, "ended")>>
    /\ active_gestures' = stop_continuous_gesture(active_gestures, last_detected_gesture)
    /\ last_detected_gesture' = last_after_stop(last_detected_gesture, last_detected_gesture)
    /\ last_gesture_end_time' = t
    /\ result' = after_display(key)
    /\ UNCHANGED <<gestures_detected, camera_paused, last_gesture_time,
                   showing_exit_message, exit_message_start_time, exit_initiated>>

\* No gesture and nothing to end.
NoEvent(key) ==
    /\ dispatched' = <<>>
    /\ result' = after_display(key)
    /\ UNCHANGED <<gestures_detected, camera_paused, last_gesture_time, active_gestures,
                   last_detected_gesture, last_gesture_end_time, showing_exit_message,
                   exit_message_start_time, exit_initiated>>

\* Mutant of Track: the test of camera_paused is lost.
TrackWhilePaused(g, t, key) ==
    LET gesture_state == determine_gesture_state(g, t) IN
    /\ gesture_state_cooldown' = cooldown_after_determine(g, t)
    /\ shutdown_signals' = shutdown_signals
    /\ IF g # NoGesture
       THEN IF exit_initiated THEN Ignored
            ELSE IF g = "middle_finger" THEN Announce(t)
            ELSE IF g = "call_sign" THEN TogglePause
            ELSE Act(g, gesture_state, t, key)
       ELSE IF gesture_state = "ended" /\ last_is_active
            THEN EndOnNoGesture(t, key)
            ELSE NoEvent(key)

\* process_frame from the call of _determine_gesture_state on.
Track(g, t, key) ==
    LET gesture_state == determine_gesture_state(g, t) IN
    /\ gesture_state_cooldown' = cooldown_after_determine(g, t)
    /\ shutdown_signals' = shutdown_signals
    /\ IF g # NoGesture
       THEN IF exit_initiated THEN Ignored
            ELSE IF g = "middle_finger" THEN Announce(t)
            ELSE IF g = "call_sign" THEN TogglePause
            ELSE IF camera_paused THEN Ignored
            ELSE Act(g, gesture_state, t, key)
       ELSE IF gesture_state = "ended" /\ last_is_active
            THEN EndOnNoGesture(t, key)
            ELSE NoEvent(key)

\* One iteration of run(): process_frame with a frame read from the camera,
\* the recognizer returning g.
Frame(g, t, key) ==
    /\ now' = t
    /\ calls' = calls + 1
    /\ frames_processed' = frames_processed + 1
    /\ detected_gesture' = g
    /\ streak' = streak_after(g)
    /\ IF exit_due(t) THEN ExitReturn ELSE Track(g, t, key)
    /\ running' = run_continues(result')

CanCall(dt) ==
    /\ running
    /\ calls < MaxCalls
    /\ now + dt <= MaxTime

----------------------------------------------------------------------------
(* The actions *)

\* The tracker on its own: the recognizer may return any label.
ProcessFrame ==
    \E dt \in Dts, g \in TrackerLabels \cup {NoGesture}, key \in {"none", "q"} :
        /\ CanCall(dt)
        /\ Frame(g, now + dt, key)
        /\ UNCHANGED <<last_gesture, recognizer_last_gesture_time, raw_gesture, flicker>>
        /\ UNCHANGED sideVars

\* The raw labels of the latest frames, each 0.05 s after the one before:
\* 1 after thumbs_up; 2 after thumbs_up, fist; 3 after thumbs_up, fist,
\* thumbs_up; 0 otherwise.
flicker_after(raw, dt) ==
    IF flicker = 1 /\ raw = "fist" /\ dt = 1 THEN 2
    ELSE IF flicker = 2 /\ raw = "thumbs_up" /\ dt = 1 THEN 3
    ELSE IF raw = "thumbs_up" THEN 1
    ELSE 0

\* The pipeline: classify_gesture returns raw, GestureRecognizer.process_frame
\* applies its cooldown, and the tracker receives what is left.
PipelineFrame ==
    \E dt \in Dts, raw \in ClassifierLabels \cup {NoGesture}, key \in {"none", "q"} :
        LET t == now + dt
            g == recognizer_detected(raw, t)
        IN /\ CanCall(dt)
           /\ raw_gesture' = raw
           /\ flicker' = flicker_after(raw, dt)
           /\ IF g # NoGesture
              THEN /\ last_gesture' = g
                   /\ recognizer_last_gesture_time' = t
              ELSE UNCHANGED <<last_gesture, recognizer_last_gesture_time>>
           /\ Frame(g, t, key)
           /\ UNCHANGED sideVars

\* process_frame when camera.read_frame() returns None: "continue trying".
FrameReadFailed ==
    \E dt \in Dts :
        /\ CanCall(dt)
        /\ now' = now + dt
        /\ calls' = calls + 1
        /\ result' = "read_failed"
        /\ dispatched' = <<>>
        /\ detected_gesture' = NoGesture
        /\ streak' = 0
        /\ running' = run_continues(result')
        /\ flicker' = 0
        /\ UNCHANGED <<frames_processed, appVars, last_gesture,
                       recognizer_last_gesture_time, raw_gesture, shutdown_signals>>
        /\ UNCHANGED sideVars

\* SIGINT or SIGTERM: the signal handler calls stop().
SignalStop ==
    /\ running
    /\ running' = FALSE
    /\ UNCHANGED <<now, frames_processed, appVars, last_gesture,
                   recognizer_last_gesture_time, raw_gesture, detected_gesture,
                   dispatched, result, streak, calls, shutdown_signals, flicker>>
    /\ UNCHANGED sideVars

Next == ProcessFrame \/ FrameReadFailed \/ SignalStop

Spec == Init /\ [][Next]_vars

NextPipeline == PipelineFrame \/ FrameReadFailed \/ SignalStop

SpecPipeline == Init /\ [][NextPipeline]_vars

----------------------------------------------------------------------------
(* Dispatch: the threads process_frame starts, and ActionsClient.send_gesture *)
(* as each of them, or any other caller, runs it.  A thread is a record:      *)
(*   kind      "dispatch" (_send_gesture_async) or "direct" (a plain          *)
(*             send_gesture(gesture) call, as in actions_client.py's test)    *)
(*   gesture, gesture_state   the arguments                                   *)
(*   pc        where it stands                                                *)
(*   tmp       the counter value it loaded for a "+= 1"                       *)
(*   message   the message it built, <<>> before                              *)
(*   attempts  the transports it handed the message to, in order              *)
(*   failures  how many times it ran "failed_sends += 1"                      *)
(*   after_failure  where it goes once the failure is counted                 *)
(*   ret       "none", "true", "false", or "raised" when the call raised      *)
(*   born      the number of process_frame calls made when it was started     *)
(*   generated the time of the process_frame call that started it             *)
(* "self.x += 1" is a load and a store; other threads may run in between.     *)

\* Threads calling send_gesture directly.
MaxThreads == 2

\* Threads the frame loop starts.
MaxDispatched == 3

\* Labels the frame loop is fed with while the threads are explored.
DispatchLabels == {"peace", "fist"}

\* Gestures of the direct calls; "" is the empty gesture.
DirectGestures == {"fist", ""}

\* Parameters send_gesture accepts by keyword.
SEND_GESTURE_PARAMS == {"gesture", "timestamp"}

\* Keywords of the send_gesture call a thread of that kind makes.
call_keywords(kind) == IF kind = "dispatch" THEN {"gesture_state"} ELSE {}

\* Python binds a call only if the function has every keyword; TypeError otherwise.
call_binds(keywords) == keywords \subseteq SEND_GESTURE_PARAMS

new_thread(kind, gesture, gesture_state, born, generated) ==
    [kind |-> kind, gesture |-> gesture, gesture_state |-> gesture_state,
     pc |-> "start", tmp |-> 0, message |-> <<>>, attempts |-> <<>>,
     failures |-> 0, after_failure |-> "done", ret |-> "none", born |-> born,
     generated |-> generated]

\* One thread per event, in the order process_frame generated them.
RECURSIVE started_threads(_, _, _)
started_threads(events, born, t) ==
    IF events = <<>> THEN <<>>
    ELSE <<new_thread("dispatch", Head(events).gesture, Head(events).gestureState, born, t)>>
         \o started_threads(Tail(events), born, t)

\* Mutant of frame_waits: process_frame joins the threads it started.
frame_waits_join(ts) == \E i \in DOMAIN ts : ts[i].pc # "done"

\* Whether process_frame waits for the dispatch threads: it never joins them.
frame_waits(ts) == FALSE

\* The message send_gesture builds.
build_message(gesture, timestamp) == [gesture |-> gesture, timestamp |-> timestamp]

\* send_gesture's choice of transport.
route(uw, connected) == IF uw /\ connected THEN "ws" ELSE "http"

\* Where _send_via_websocket goes after counting a failed send.
after_ws_failure == "http"

\* Mutant of after_http_failure: a failed HTTP request is tried again.
after_http_failure_retry == "http"

\* Where _send_via_http goes after counting a failed request.
after_http_failure == "done"

\* What requests.post can do: the status codes, and the exceptions.
HttpOutcomes == {"200", "500", "timeout", "connection_error", "exception"}

SetThread(i, r) == threads' = [threads EXCEPT ![i] = r]

\* run() calls process_frame; every event it generates goes to a new thread.
DispatchFrame ==
    \E dt \in Dts, g \in DispatchLabels \cup {NoGesture} :
        /\ CanCall(dt)
        /\ ~frame_waits(threads)
        /\ Frame(g, now + dt, "none")
        /\ Len(threads) + Len(dispatched') <= MaxDispatched
        /\ threads' = threads \o started_threads(dispatched', calls', now')
        /\ UNCHANGED <<last_gesture, recognizer_last_gesture_time, raw_gesture, flicker>>
        /\ UNCHANGED <<use_websocket, ws_connected, gestures_sent, successful_sends,
                       failed_sends, relayVars, waveVars, smootherVars,
                       classifierVars>>

\* Some other caller runs client.send_gesture(gesture).
DirectCall ==
    \E g \in DirectGestures :
        /\ Len(threads) < MaxThreads
        /\ threads' = Append(threads, new_thread("direct", g, NoState, calls, now))
        /\ UNCHANGED <<clientRest, use_websocket, ws_connected, gestures_sent,
                       successful_sends, failed_sends>>

\* The call of send_gesture: _send_gesture_async passes gesture_state by
\* keyword, and catches whatever the call raises.
ThreadCall(i) ==
    /\ threads[i].pc = "start"
    /\ IF call_binds(call_keywords(threads[i].kind))
       THEN SetThread(i, [threads[i] EXCEPT !.pc = "check"])
       ELSE SetThread(i, [threads[i] EXCEPT !.pc = "done", !.ret = "raised"])
    /\ UNCHANGED <<clientRest, use_websocket, ws_connected, gestures_sent,
                   successful_sends, failed_sends>>

\* send_gesture up to the load of gestures_sent.
ThreadCheck(i) ==
    /\ threads[i].pc = "check"
    /\ IF threads[i].gesture = ""
       THEN SetThread(i, [threads[i] EXCEPT !.pc = "done", !.ret = "false"])
       ELSE SetThread(i, [threads[i] EXCEPT
                !.pc = "count",
                !.message = build_message(threads[i].gesture, now),
                !.tmp = gestures_sent])
    /\ UNCHANGED <<clientRest, use_websocket, ws_connected, gestures_sent,
                   successful_sends, failed_sends>>

\* The store of gestures_sent, and the choice of transport.
ThreadCount(i) ==
    /\ threads[i].pc = "count"
    /\ gestures_sent' = threads[i].tmp + 1
    /\ SetThread(i, [threads[i] EXCEPT !.pc = route(use_websocket, ws_connected)])
    /\ UNCHANGED <<clientRest, use_websocket, ws_connected, successful_sends, failed_sends>>

\* _send_via_websocket: HTTP instead if the connection is gone, else ws.send,
\* which returns or raises.
ThreadWs(i) ==
    /\ threads[i].pc = "ws"
    /\ IF ~ws_connected
       THEN SetThread(i, [threads[i] EXCEPT !.pc = "http"])
       ELSE \E ok \in BOOLEAN :
                SetThread(i, [threads[i] EXCEPT
                    !.attempts = Append(@, "ws"),
                    !.pc = IF ok THEN "succeeded" ELSE "failed",
                    !.tmp = IF ok THEN successful_sends ELSE failed_sends,
                    !.after_failure = after_ws_failure])
    /\ UNCHANGED <<clientRest, use_websocket, ws_connected, gestures_sent,
                   successful_sends, failed_sends>>

\* _send_via_http: requests.post is called; the request is in flight.
ThreadHttp(i) ==
    /\ threads[i].pc = "http"
    /\ SetThread(i, [threads[i] EXCEPT !.attempts = Append(@, "http"), !.pc = "posting"])
    /\ UNCHANGED <<clientRest, use_websocket, ws_connected, gestures_sent,
                   successful_sends, failed_sends>>

\* requests.post returns or raises, after however long it takes.
ThreadHttpReturn(i) ==
    /\ threads[i].pc = "posting"
    /\ \E outcome \in HttpOutcomes :
           SetThread(i, [threads[i] EXCEPT
               !.pc = IF outcome = "200" THEN "succeeded" ELSE "failed",
               !.tmp = IF outcome = "200" THEN successful_sends ELSE failed_sends,
               !.after_failure = after_http_failure])
    /\ UNCHANGED <<clientRest, use_websocket, ws_connected, gestures_sent,
                   successful_sends, failed_sends>>

\* The store of successful_sends; return True.
ThreadSucceeded(i) ==
    /\ threads[i].pc = "succeeded"
    /\ successful_sends' = threads[i].tmp + 1
    /\ SetThread(i, [threads[i] EXCEPT !.pc = "done", !.ret = "true"])
    /\ UNCHANGED <<clientRest, use_websocket, ws_connected, gestures_sent, failed_sends>>

\* The store of failed_sends; return False, or fall back to HTTP.
ThreadFailed(i) ==
    /\ threads[i].pc = "failed"
    /\ failed_sends' = threads[i].tmp + 1
    /\ SetThread(i, [threads[i] EXCEPT
           !.pc = threads[i].after_failure,
           !.failures = @ + 1,
           !.ret = IF threads[i].after_failure = "done" THEN "false" ELSE @])
    /\ UNCHANGED <<clientRest, use_websocket, ws_connected, gestures_sent, successful_sends>>

ThreadStep ==
    \E i \in DOMAIN threads :
        \/ ThreadCall(i)
        \/ ThreadCheck(i)
        \/ ThreadCount(i)
        \/ ThreadWs(i)
        \/ ThreadHttp(i)
        \/ ThreadHttpReturn(i)
        \/ ThreadSucceeded(i)
        \/ ThreadFailed(i)

\* switch_to_websocket and switch_to_http.
SwitchTransport ==
    /\ use_websocket' = ~use_websocket
    /\ UNCHANGED <<clientRest, ws_connected, gestures_sent, successful_sends,
                   failed_sends, threads>>

\* The WebSocket callbacks: on_open, and on_close or on_error.
WsCallback ==
    /\ ws_connected' = IF ws_connected THEN FALSE ELSE use_websocket
    /\ ws_connected' # ws_connected
    /\ UNCHANGED <<clientRest, use_websocket, gestures_sent, successful_sends,
                   failed_sends, threads>>

\* The frame loop and the threads it starts; the application's client is
\* ActionsClient(), which is in HTTP mode.
NextDispatch == DispatchFrame \/ ThreadStep

SpecDispatch == Init /\ [][NextDispatch]_vars

\* The client on its own, called from up to MaxThreads threads, in either mode.
NextClient == DirectCall \/ ThreadStep \/ SwitchTransport \/ WsCallback

SpecClient == Init /\ [][NextClient]_vars

----------------------------------------------------------------------------
(* camera_streamer.py: the frame slot between the frame loop, which calls   *)
(* update_frame, and the relay thread, which runs _stream_loop.  Frames are  *)
(* numbered in the order the frame loop produced them.                       *)

MaxFrames == 3

\* Mutant of sends_under_lock: the relay copies the slot under the lock and
\* sends the copy after releasing it.
sends_after_release == FALSE

\* Whether _send_frame_to_server is called inside "with self.frame_lock".
sends_under_lock == TRUE

\* update_frame up to the lock: the frame is converted and encoded.
UpdateEncode ==
    /\ update_pc = "idle"
    /\ frames_captured < MaxFrames
    /\ frames_captured' = frames_captured + 1
    /\ encoded_frame' = frames_captured + 1
    /\ update_pc' = "encoded"
    /\ UNCHANGED <<relayRest, streaming, frame_data, frame_lock, relay_pc,
                   relay_frame, last_stored, seen_stored>>

\* update_frame enters "with self.frame_lock", once the lock is free.
UpdateAcquire ==
    /\ update_pc = "encoded"
    /\ frame_lock = "free"
    /\ frame_lock' = "update"
    /\ update_pc' = "locked"
    /\ UNCHANGED <<relayRest, streaming, frame_data, frames_captured,
                   encoded_frame, relay_pc, relay_frame, last_stored, seen_stored>>

\* update_frame replaces the slot and leaves the with block.
UpdateStore ==
    /\ update_pc = "locked"
    /\ frame_data' = encoded_frame
    /\ last_stored' = encoded_frame
    /\ frame_lock' = "free"
    /\ update_pc' = "idle"
    /\ UNCHANGED <<relayRest, streaming, frames_captured, encoded_frame,
                   relay_pc, relay_frame, seen_stored>>

\* _stream_loop tests self.streaming and enters "with self.frame_lock".
RelayAcquire ==
    /\ relay_pc = "loop"
    /\ IF ~streaming
       THEN /\ relay_pc' = "stopped"
            /\ UNCHANGED <<frame_lock, seen_stored>>
       ELSE /\ frame_lock = "free"
            /\ frame_lock' = "relay"
            /\ seen_stored' = last_stored
            /\ relay_pc' = "locked"
    /\ UNCHANGED <<relayRest, streaming, frame_data, frames_captured,
                   encoded_frame, update_pc, relay_frame, last_stored>>

\* Under the lock: with a frame in the slot, _send_frame_to_server is called
\* with it; with none, the with block is left.
RelayRead ==
    /\ relay_pc = "locked"
    /\ IF frame_data # NoFrame
       THEN /\ relay_frame' = frame_data
            /\ relay_pc' = "sending"
            /\ frame_lock' = IF sends_under_lock THEN "relay" ELSE "free"
       ELSE /\ relay_pc' = "sleeping"
            /\ frame_lock' = "free"
            /\ UNCHANGED relay_frame
    /\ UNCHANGED <<relayRest, streaming, frame_data, frames_captured,
                   encoded_frame, update_pc, last_stored, seen_stored>>

\* requests.post returns or raises; the with block is left.
RelaySent ==
    /\ relay_pc = "sending"
    /\ relay_pc' = "sleeping"
    /\ frame_lock' = IF sends_under_lock THEN "free" ELSE frame_lock
    /\ UNCHANGED <<relayRest, streaming, frame_data, frames_captured,
                   encoded_frame, update_pc, relay_frame, last_stored, seen_stored>>

\* time.sleep(0.1) is over.
RelayWake ==
    /\ relay_pc = "sleeping"
    /\ relay_pc' = "loop"
    /\ UNCHANGED <<relayRest, streaming, frame_data, frame_lock,
                   frames_captured, encoded_frame, update_pc, relay_frame, last_stored,
                   seen_stored>>

\* stop_streaming.
StopStreaming ==
    /\ streaming
    /\ streaming' = FALSE
    /\ UNCHANGED <<relayRest, frame_data, frame_lock, frames_captured,
                   encoded_frame, update_pc, relay_pc, relay_frame, last_stored,
                   seen_stored>>

NextRelay ==
    \/ UpdateEncode \/ UpdateAcquire \/ UpdateStore
    \/ RelayAcquire \/ RelayRead \/ RelaySent \/ RelayWake
    \/ StopStreaming

SpecRelay == Init /\ [][NextRelay]_vars

----------------------------------------------------------------------------
(* gesture_recognition.py: detect_wave.  Wrist positions are in hundredths   *)
(* of the normalised frame width; only x is ever read back from the window.  *)

MaxWaveTime == 61

\* Time between two detect_wave calls, in ticks: 0.05 s and 2.0 s.
WaveDts == {1, 40}

\* Wrist x of a sample: steps of 0.03, 0.07 and 0.10 between them.
WaveXs == {0, 3, 10}

wave_threshold == 5         \* 0.05

wave_frames == 7

wave_cooldown == 40         \* 2.0 s

Abs(n) == IF n < 0 THEN -n ELSE n

\* Mutant of wave_in_cooldown: no cooldown.
wave_in_cooldown_never(last, t) == FALSE

\* current_time - self.last_wave_time < 2.0
wave_in_cooldown(last, t) == t - last < wave_cooldown

\* Mutant of wave_appended: the oldest sample is never dropped.
wave_appended_unbounded(positions, x) == Append(positions, x)

\* The window after the append and the pop.
wave_appended(positions, x) ==
    LET a == Append(positions, x)
    IN IF Len(a) > wave_frames THEN Tail(a) ELSE a

\* movements[k] of the code is wave_movements(w)[k + 1].
wave_movements(w) == [i \in 1 .. Len(w) - 1 |-> w[i + 1] - w[i]]

\* The loop "for i in range(1, len(movements))" visits the second to the
\* last movement.
wave_direction_changes(m) ==
    Cardinality({i \in 2 .. Len(m) :
        /\ m[i - 1] * m[i] < 0
        /\ Abs(m[i - 1]) > wave_threshold
        /\ Abs(m[i]) > wave_threshold})

wave_significant_movements(m) ==
    Cardinality({i \in 2 .. Len(m) : Abs(m[i]) > wave_threshold})

wave_pattern(w) ==
    /\ wave_direction_changes(wave_movements(w)) >= 1
    /\ wave_significant_movements(wave_movements(w)) >= 2

\* The scenario: from the empty window, wave_frames samples 0.05 s apart
\* whose x alternates between 0.00 and 0.10; the same samples again at once;
\* and, the first of them 2.0 s later, the same samples a third time.
WaveScriptLen == 3 * wave_frames

WaveScriptX(k) == IF ((k - 1) % wave_frames) % 2 = 0 THEN 0 ELSE 10

WaveScriptDt(k) == IF k = 2 * wave_frames + 1 THEN 40 ELSE 1

script_after(x, dt) ==
    IF /\ script >= 0
       /\ script < WaveScriptLen
       /\ x = WaveScriptX(script + 1)
       /\ dt = WaveScriptDt(script + 1)
    THEN script + 1
    ELSE -1

\* Mutant of window_after_detection: a detection keeps the window.
window_after_detection_kept(w) == w

\* self.hand_positions = [] on a detection.
window_after_detection(w) == <<>>

\* detect_wave(landmarks) with the wrist at x.
DetectWave ==
    \E dt \in WaveDts, x \in WaveXs :
        LET t == now + dt
            w == wave_appended(hand_positions, x)
        IN /\ t <= MaxWaveTime
           /\ now' = t
           /\ wave_x' = x
           /\ script' = script_after(x, dt)
           /\ IF wave_in_cooldown(last_wave_time, t)
              THEN /\ wave_result' = FALSE
                   /\ UNCHANGED <<hand_positions, last_wave_time, wave_detected_at,
                                  wave_detections>>
              ELSE IF Len(w) < wave_frames
              THEN /\ hand_positions' = w
                   /\ wave_result' = FALSE
                   /\ UNCHANGED <<last_wave_time, wave_detected_at, wave_detections>>
              ELSE IF wave_pattern(w)
              THEN /\ last_wave_time' = t
                   /\ hand_positions' = window_after_detection(w)
                   /\ wave_result' = TRUE
                   /\ wave_detected_at' = t
                   /\ wave_detections' = wave_detections + 1
              ELSE /\ hand_positions' = w
                   /\ wave_result' = FALSE
                   /\ UNCHANGED <<last_wave_time, wave_detected_at, wave_detections>>
           /\ UNCHANGED waveRest

\* classify_gesture is the only caller, and always passes landmarks.
NextWave == DetectWave

SpecWave == Init /\ [][NextWave]_vars

----------------------------------------------------------------------------
(* gesture_recognition.py: _smooth_gesture *)

MaxSmoothCalls == 6

\* Time between two _smooth_gesture calls, in ticks: 0.05 s and 1.0 s.
SmoothDts == {1, 20}

\* Labels _smooth_gesture is explored with: the three of its table, and one
\* outside it.
SmoothLabels == {"fist", "thumbs_up", "thumbs_down", "peace"}

gesture_history_size == 5

smooth_window == 20         \* 1.0 s

similar_gestures ==
    [g \in {"thumbs_up", "thumbs_down", "fist"} |->
        IF g = "thumbs_up" THEN {"fist", "thumbs_down"}
        ELSE IF g = "thumbs_down" THEN {"fist", "thumbs_up"}
        ELSE {"thumbs_up", "thumbs_down"}]

\* self.similar_gestures.get(g, [])
similar_get(g) == IF g \in DOMAIN similar_gestures THEN similar_gestures[g] ELSE {}

\* The last n entries of s, all of s if it has fewer.
LastOf(s, n) == IF Len(s) > n THEN SubSeq(s, Len(s) - n + 1, Len(s)) ELSE s

\* Mutant of history_after: no size limit.
history_after_unlimited(history, gesture, t) ==
    LET appended == IF gesture # NoGesture THEN Append(history, <<gesture, t>>)
                    ELSE history
    IN SelectSeq(appended, LAMBDA e : e[2] > t - smooth_window)

\* gesture_history after the append, the one-second filter and the size limit.
history_after(history, gesture, t) ==
    LET appended == IF gesture # NoGesture THEN Append(history, <<gesture, t>>)
                    ELSE history
        recent == SelectSeq(appended, LAMBDA e : e[2] > t - smooth_window)
    IN LastOf(recent, gesture_history_size)

\* Mutant of smoothed: the label goes through as it came.
smoothed_never(history, gesture) == gesture

\* What _smooth_gesture returns, history being gesture_history after its update.
smoothed(history, gesture) ==
    IF gesture = NoGesture \/ Len(history) < 3 THEN gesture
    ELSE LET current == history[Len(history)][1]
             previous == history[Len(history) - 1][1]
             before_previous == history[Len(history) - 2][1]
         IN IF /\ current # previous
               /\ current \in similar_get(previous)
               /\ previous \in similar_get(before_previous)
            THEN previous
            ELSE gesture

\* _smooth_gesture(gesture) at time now + dt.
SmoothGesture ==
    \E dt \in SmoothDts, gesture \in SmoothLabels \cup {NoGesture} :
        /\ calls < MaxSmoothCalls
        /\ calls' = calls + 1
        /\ now' = now + dt
        /\ smooth_input' = gesture
        /\ gesture_history' = history_after(gesture_history, gesture, now')
        /\ smooth_result' = smoothed(gesture_history', gesture)
        /\ smooth_results' = LastOf(Append(smooth_results, smooth_result'), 3)
        /\ UNCHANGED smootherRest

NextSmoother == SmoothGesture

SpecSmoother == Init /\ [][NextSmoother]_vars

----------------------------------------------------------------------------
(* gesture_recognition.py: classify_gesture, as a function of what it       *)
(* computes from the landmarks: the five extension flags (thumb, index,      *)
(* middle, ring, pinky: fingers_up[0..4]), what detect_wave reported, where  *)
(* the thumb tip lies when only the thumb is extended, and the two distance  *)
(* tests.                                                                    *)

Fingers == 0 .. 4

FingerVectors == [Fingers -> BOOLEAN]

\* thumb_clearly_up, thumb_clearly_down, neither but below the wrist, none.
ThumbPositions == {"clearly_up", "clearly_down", "below_wrist", "level"}

extended_count(f) == Cardinality({i \in Fingers : f[i]})

\* Mutant of middle_finger_rule: the other fingers are not looked at.
middle_finger_rule_loose(f) == f[2]

\* The test of the MIDDLE FINGER branch.
middle_finger_rule(f) == f[2] /\ ~f[1] /\ ~f[3] /\ ~f[4]

\* The chain of rules, in the order of the code; NoGesture is None.
classify_gesture(f, wave, thumb, close, separated) ==
    IF wave THEN "wave"
    ELSE IF f[0] /\ f[1] /\ f[2] /\ ~f[3] /\ ~f[4] THEN "three_fingers_serbian_style"
    ELSE IF extended_count(f) = 0 THEN "fist"
    ELSE IF extended_count(f) = 1 /\ f[0] THEN
        IF thumb = "clearly_up" THEN "thumbs_up"
        ELSE IF thumb = "clearly_down" THEN "thumbs_down"
        ELSE IF thumb = "below_wrist" THEN "thumbs_down"
        ELSE "fist"
    ELSE IF extended_count(f) = 5 THEN "open_palm"
    ELSE IF f[1] /\ f[2] /\ ~f[3] /\ ~f[4] THEN "peace"
    ELSE IF extended_count(f) = 2 /\ f[0] /\ f[4] /\ ~f[1] /\ ~f[2] /\ ~f[3] THEN "call"
    ELSE IF f[0] /\ f[1] /\ ~f[2] /\ ~f[3] /\ ~f[4] THEN "l_shape"
    ELSE IF f[1] /\ ~f[2] /\ ~f[3] /\ ~f[4] THEN "pointing"
    ELSE IF f[1] /\ f[4] /\ ~f[2] /\ ~f[3] THEN "rock"
    ELSE IF f[1] /\ f[2] /\ f[3] /\ ~f[4] THEN "three_fingers"
    ELSE IF middle_finger_rule(f) THEN "middle_finger"
    ELSE IF f[3] /\ ~f[1] /\ ~f[2] /\ ~f[4] THEN "ring_finger"
    ELSE IF f[4] /\ ~f[1] /\ ~f[2] /\ ~f[3] THEN "pinky"
    ELSE IF f[1] /\ f[3] /\ ~f[2] /\ ~f[4] THEN "two_fingers_ir"
    ELSE IF f[2] /\ f[3] /\ ~f[1] /\ ~f[4] THEN "two_fingers_mr"
    ELSE IF f[1] /\ f[2] /\ f[3] /\ f[4] /\ ~f[0] THEN "four_fingers"
    ELSE IF extended_count(f) = 2 /\ f[0] /\ f[1] /\ ~f[2] /\ ~f[3] /\ ~f[4] THEN
        IF close THEN "pinch" ELSE NoGesture
    ELSE IF f[1] /\ f[2] /\ ~f[0] /\ ~f[3] /\ ~f[4] THEN
        IF separated THEN "spock" ELSE NoGesture
    ELSE IF extended_count(f) >= 3 /\ f[2] /\ f[3] /\ f[4] THEN
        IF close THEN "ok" ELSE NoGesture
    ELSE NoGesture

\* classify_gesture(landmarks) for one hand.
Classify ==
    \E f \in FingerVectors, wave \in BOOLEAN, thumb \in ThumbPositions,
       close \in BOOLEAN, separated \in BOOLEAN :
        /\ fingers_up' = f
        /\ wave_reported' = wave
        /\ thumb_position' = thumb
        /\ thumb_index_close' = close
        /\ index_middle_separated' = separated
        /\ classified' = classify_gesture(f, wave, thumb, close, separated)
        /\ UNCHANGED classifierRest

NextClassifier == Classify

SpecClassifier == Init /\ [][NextClassifier]_vars

----------------------------------------------------------------------------
(* Vocabulary of the properties *)

\* A step that is a process_frame call in which the camera delivered a frame.
FrameStep == calls' = calls + 1 /\ frames_processed' = frames_processed + 1

\* A step that is a process_frame call, frame or no frame.
CallStep == calls' = calls + 1

\* The tracker is neither paused nor exiting.
Tracking == ~camera_paused /\ ~exit_initiated

SingleActionLabels == TrackerLabels \ (continuous_gestures \cup {"call_sign", "middle_finger"})

\* The latest call handed exactly one event, (g, state), to a dispatch thread.
Emitted(d, g, state) == d = <<Event(g, state)>>

----------------------------------------------------------------------------
(* C1 *)

\* C1, as claimed: with the tracker neither paused nor exiting, a continuous
\* label L that is not active and arrives on two or more frames in a row
\* emits (L, started) on the first and (L, held) on each later one; the first
\* no-gesture frame after them emits (L, ended), whatever the end cooldown
\* says, and the no-gesture frame after that emits nothing.
C1_AsClaimed ==
    [][FrameStep /\ Tracking =>
         /\ (streak' = 1 => Emitted(dispatched', detected_gesture', "started"))
         /\ (streak' = 2 => Emitted(dispatched', detected_gesture', "held"))
         /\ (streak = 2 /\ detected_gesture' = NoGesture
               => Emitted(dispatched', detected_gesture, "ended"))
         /\ (streak = 3 /\ detected_gesture' = NoGesture => dispatched' = <<>>)]_vars

\* C1, amended: with the tracker neither paused nor exiting, a frame carrying
\* a continuous label L emits exactly (L, started) when L is not active and
\* exactly (L, held) when it is; a no-gesture frame while L is active emits
\* exactly (L, ended) and deactivates L when no end of L was stamped in
\* gesture_state_cooldown within the last 0.2 s, and otherwise emits nothing
\* and leaves L active; a no-gesture frame right after a call that emitted an
\* ended event emits nothing.
C1_Lifecycle ==
    [][FrameStep /\ Tracking =>
         LET g == detected_gesture'
             L == last_detected_gesture
             key == EndedKey(L)
             elapsed == \/ key \notin DOMAIN gesture_state_cooldown
                        \/ now' - gesture_state_cooldown[key] > 4
         IN /\ (g \in continuous_gestures /\ g \notin DOMAIN active_gestures
                  => Emitted(dispatched', g, "started") /\ g \in DOMAIN active_gestures')
            /\ (g \in continuous_gestures /\ g \in DOMAIN active_gestures
                  => Emitted(dispatched', g, "held") /\ g \in DOMAIN active_gestures')
            /\ (g = NoGesture /\ L \in DOMAIN active_gestures /\ elapsed
                  => /\ Emitted(dispatched', L, "ended")
                     /\ active_gestures' = EmptyDict
                     /\ last_detected_gesture' = NoGesture)
            /\ (g = NoGesture /\ L \in DOMAIN active_gestures /\ ~elapsed
                  => /\ dispatched' = <<>>
                     /\ UNCHANGED <<active_gestures, last_detected_gesture>>)
            /\ (g = NoGesture /\ Len(dispatched) = 1 /\ dispatched[1].gestureState = "ended"
                  => dispatched' = <<>>)]_vars

\* C1, witness: the first no-gesture frame after two or more frames of a
\* continuous label has just emitted its ended event.
C1_Witness ==
    /\ streak = 3
    /\ Len(dispatched) = 1
    /\ dispatched[1].gestureState = "ended"
    /\ active_gestures = EmptyDict

----------------------------------------------------------------------------
(* C2 *)

\* C2, as claimed: in the pipeline, a frame classified with the same
\* continuous label as the frame before it emits exactly (L, held), and so
\* no (L, ended).
C2_AsClaimed ==
    [][FrameStep /\ Tracking /\ streak >= 1
         /\ raw_gesture' \in continuous_gestures /\ raw_gesture' = raw_gesture
         => Emitted(dispatched', raw_gesture', "held")]_vars

----------------------------------------------------------------------------
(* C3 *)

\* C3, as claimed: a single-action label arriving less than 2.0 s after it
\* was last accepted dispatches nothing; arriving 2.1 s or more after, it
\* dispatches (M, detected).
C3_AsClaimed ==
    [][FrameStep /\ Tracking /\ detected_gesture' \in SingleActionLabels
         /\ detected_gesture' \in DOMAIN last_gesture_time
         => LET since == now' - last_gesture_time[detected_gesture']
            IN /\ (since < 40 => dispatched' = <<>>)
               /\ (since >= 42 => Emitted(dispatched', detected_gesture', "detected"))]_vars

----------------------------------------------------------------------------
(* C4 *)

\* C4, as claimed: a continuous label B arriving while another continuous
\* label A is active dispatches (A, ended) and then (B, started), and leaves
\* B active and A not.
C4_AsClaimed ==
    [][FrameStep /\ Tracking
         /\ detected_gesture' \in continuous_gestures
         /\ last_is_active
         /\ detected_gesture' # last_detected_gesture
         => /\ dispatched' = <<Event(last_detected_gesture, "ended"),
                               Event(detected_gesture', "started")>>
            /\ DOMAIN active_gestures' = {detected_gesture'}]_vars

----------------------------------------------------------------------------
(* C5 *)

\* C5: active_gestures never holds more than one entry.
C5_AtMostOneActive == Cardinality(DOMAIN active_gestures) <= 1

\* C5, witness: a continuous label has just replaced another one that was
\* active.
C5_Witness ==
    /\ Emitted(dispatched, detected_gesture, "started")
    /\ last_gesture_end_time = now
    /\ DOMAIN active_gestures = {detected_gesture}

----------------------------------------------------------------------------
(* C6 *)

\* C6, as claimed: once exit_initiated is set, no call dispatches an event.
C6_AsClaimed == exit_initiated => dispatched = <<>>

----------------------------------------------------------------------------
(* C7 *)

\* C7: the exit sequence only moves forward. showing_exit_message and
\* exit_initiated never go back to false, exit_message_start_time is set only
\* by a middle_finger frame that finds the sequence idle and never changes
\* afterwards, and process_frame returns False for the exit sequence at most
\* once.
C7_ExitOneWay ==
    [][/\ (showing_exit_message
             => showing_exit_message'
                /\ exit_message_start_time' = exit_message_start_time)
       /\ (exit_initiated => exit_initiated')
       /\ (exit_message_start_time' # exit_message_start_time
             => /\ ~showing_exit_message /\ ~exit_initiated
                /\ detected_gesture' = "middle_finger"
                /\ exit_message_start_time' = now'
                /\ showing_exit_message' /\ exit_initiated')
       /\ shutdown_signals' <= 1]_vars

\* C7, witness: the quit gesture is presented again after it was accepted.
C7_Witness ==
    /\ detected_gesture = "middle_finger"
    /\ exit_initiated /\ showing_exit_message
    /\ exit_message_start_time # NoTime /\ exit_message_start_time < now
    /\ result = "continue"

----------------------------------------------------------------------------
(* C8 *)

\* C8, as claimed: once the quit gesture was accepted at t0, no call made
\* before t0 + 3.0 s returns False for the exit sequence, and the call made
\* at or after t0 + 3.0 s does.
C8_AsClaimed ==
    [][CallStep /\ showing_exit_message =>
         IF now' - exit_message_start_time >= 60
         THEN result' = "exit" /\ ~running'
         ELSE result' # "exit"]_vars

\* C8, what the code does: once the quit gesture was accepted at t0, no call
\* made before t0 + 3.0 s returns False for the exit sequence; a call made at
\* or after t0 + 3.0 s returns False and ends the run loop when the camera
\* delivers a frame, and returns True without looking at the exit sequence
\* when read_frame() fails.
C8_ExitAfterGrace ==
    [][CallStep /\ showing_exit_message =>
         IF now' - exit_message_start_time >= 60
         THEN IF FrameStep
              THEN result' = "exit" /\ ~running'
              ELSE result' = "read_failed" /\ running'
         ELSE result' # "exit"]_vars

\* C8, the state the lemma is about: the call at exactly t0 + 3.0 s has
\* returned False.
C8_Witness ==
    /\ result = "exit"
    /\ ~running
    /\ now - exit_message_start_time = 60

----------------------------------------------------------------------------
(* C9 *)

\* C9, as claimed: a frame that finds camera_paused set dispatches no event.
C9_AsClaimed == [][FrameStep /\ camera_paused => dispatched' = <<>>]_vars

----------------------------------------------------------------------------
(* C10 *)

----------------------------------------------------------------------------
(* Dispatch and the client *)

DispatchThreads == {i \in DOMAIN threads : threads[i].kind = "dispatch"}

\* The call of thread i has come to its end, one way or another.
Finished(i) == threads[i].pc = "done"

\* C11 as claimed: every event process_frame generated ends up as exactly
\* one message handed to the sink transport, carrying the event's gesture
\* id, a timestamp, and a gestureState equal to the event's state.
\* SpecDispatch violates it: no dispatch thread ever hands over a message.
C11_AsClaimed ==
    \A i \in DispatchThreads :
        Finished(i) =>
            /\ Len(threads[i].attempts) = 1
            /\ DOMAIN threads[i].message = {"gesture", "timestamp", "gestureState"}
            /\ threads[i].message.gesture = threads[i].gesture
            /\ threads[i].message.gestureState = threads[i].gesture_state

\* C12 as claimed: a dispatch that failed, the sink refusing or the task
\* raising, has counted itself in failed_sends exactly once.
\* SpecDispatch violates it: the task raises and nothing is counted.
C12_AsClaimed ==
    \A i \in DispatchThreads :
        Finished(i) /\ threads[i].ret \in {"false", "raised"} => threads[i].failures = 1

\* C13 as claimed: a send_gesture call makes at most one delivery attempt.
\* SpecClient violates it: a failed WebSocket send is followed by an HTTP request.
C13_AsClaimed == \A i \in DOMAIN threads : Len(threads[i].attempts) <= 1

\* C13, corrected: a send_gesture call tries no transport twice and tries
\* nothing after an HTTP request; the only second attempt is the HTTP
\* request that follows a WebSocket send that failed and was counted.
C13_OneAttemptPerTransport ==
    \A i \in DOMAIN threads :
        /\ threads[i].attempts \in {<<>>, <<"http">>, <<"ws">>, <<"ws", "http">>}
        /\ threads[i].attempts = <<"ws", "http">> => threads[i].failures >= 1
        /\ threads[i].kind = "direct" /\ Finished(i) /\ threads[i].gesture # ""
               => threads[i].attempts # <<>>

\* A call whose HTTP request failed has ended, having tried HTTP once; and a
\* call whose WebSocket send failed has gone on to HTTP.
C13_Witness ==
    /\ \E i \in DOMAIN threads :
           Finished(i) /\ threads[i].attempts = <<"http">> /\ threads[i].ret = "false"
    /\ \E i \in DOMAIN threads :
           Finished(i) /\ threads[i].attempts = <<"ws", "http">>

InFlight(i) == threads[i].pc \notin {"start", "done"}

\* C38 as claimed: while no send_gesture call is under way, successful_sends
\* + failed_sends = gestures_sent and successful_sends <= gestures_sent.
\* SpecClient violates it: a WebSocket send that fails is counted as failed
\* and its HTTP fallback is counted again; and two calls at once can lose an
\* increment.
C38_AsClaimed ==
    (\A i \in DOMAIN threads : ~InFlight(i)) =>
        /\ successful_sends + failed_sends = gestures_sent
        /\ successful_sends <= gestures_sent

\* C31 as claimed: the event of every dispatch thread that has come to its
\* end was delivered with the time of its generation as timestamp, and so
\* of two events the one generated first carries the timestamp that is not
\* later.  SpecDispatch violates it: no dispatch thread builds a message,
\* and the timestamp of a message is the time send_gesture runs at.
C31_AsClaimed ==
    /\ \A i \in DispatchThreads :
           Finished(i) =>
               /\ threads[i].message # <<>>
               /\ threads[i].message.timestamp = threads[i].generated
    /\ \A i, j \in DispatchThreads :
           i < j /\ threads[i].message # <<>> /\ threads[j].message # <<>>
               => threads[i].message.timestamp <= threads[j].message.timestamp

----------------------------------------------------------------------------
(* The frame relay *)

\* C15: the slot is replaced only by an update_frame that holds the lock,
\* never while the relay holds it; and the frame the relay is sending is
\* the one stored by the latest update_frame completed before the relay
\* acquired the lock, which is still the content of the slot: nothing
\* older than the slot's content is sent.
C15_RelaySendsLatest ==
    /\ update_pc = "locked" => frame_lock = "update" /\ relay_pc \notin {"locked", "sending"}
    /\ relay_pc \in {"locked", "sending"} => frame_lock = "relay" /\ frame_data = seen_stored
    /\ relay_pc = "sending" =>
           /\ relay_frame = seen_stored
           /\ relay_frame = last_stored
           /\ relay_frame = frame_data

\* The relay is sending the second frame while update_frame, the third
\* frame encoded, waits for the lock.
C15_Witness ==
    /\ relay_pc = "sending"
    /\ relay_frame = 2
    /\ update_pc = "encoded"
    /\ encoded_frame = 3

\* C39 as claimed: the relay does not hold frame_lock while it sends, so
\* an update_frame that has encoded its frame can take the lock whenever the
\* relay is sending.  SpecRelay violates it: the send is made inside
\* "with self.frame_lock".
C39_AsClaimed ==
    /\ relay_pc = "sending" => frame_lock # "relay"
    /\ relay_pc = "sending" /\ update_pc = "encoded" => ENABLED UpdateAcquire

----------------------------------------------------------------------------
(* The end cooldown and the call sign cooldown *)

\* The latest call handed an ended event to a dispatch thread.
EmittedEnded(d) == Len(d) = 1 /\ d[1].gestureState = "ended"

\* C29: two (L, ended) events of one label L are never emitted less than
\* 0.2 s apart.  Each emission stamps the time of L's end, stamps are never
\* moved back, and an ended event is emitted only when L has no stamp or one
\* more than 0.2 s old; a no-gesture frame while L is active and its stamp
\* is at most 0.2 s old emits nothing and leaves L active and
\* last_detected_gesture = L; and a no-gesture frame while L is active and
\* its stamp is older, which process_frame does not end at the exit
\* deadline, emits (L, ended).
C29_EndCooldown ==
    [][LET L == last_detected_gesture
           key == EndedKey(L)
           within == /\ key \in DOMAIN gesture_state_cooldown
                     /\ now' - gesture_state_cooldown[key] <= gesture_state_cooldown_time
       IN /\ \A k \in DOMAIN gesture_state_cooldown :
                /\ k \in DOMAIN gesture_state_cooldown'
                /\ gesture_state_cooldown'[k] >= gesture_state_cooldown[k]
          /\ EmittedEnded(dispatched') /\ dispatched' # dispatched
                => FrameStep
          /\ FrameStep =>
                /\ EmittedEnded(dispatched')
                      => /\ detected_gesture' = NoGesture
                         /\ L \in continuous_gestures
                         /\ Emitted(dispatched', L, "ended")
                         /\ ~within
                         /\ gesture_state_cooldown'[key] = now'
                /\ detected_gesture' = NoGesture /\ L \in DOMAIN active_gestures /\ within
                      => /\ dispatched' = <<>>
                         /\ L \in DOMAIN active_gestures'
                         /\ last_detected_gesture' = L
                /\ detected_gesture' = NoGesture /\ L \in DOMAIN active_gestures
                      /\ ~within /\ ~exit_due(now')
                      => Emitted(dispatched', L, "ended")]_vars

\* A no-gesture frame has come within 0.2 s of the end of L, L being
\* active again: nothing was emitted and L is still active.
C29_Witness ==
    /\ calls = 4 /\ frames_processed = 4
    /\ detected_gesture = NoGesture
    /\ dispatched = <<>>
    /\ last_detected_gesture \in DOMAIN active_gestures
    /\ EndedKey(last_detected_gesture) \in DOMAIN gesture_state_cooldown
    /\ now - gesture_state_cooldown[EndedKey(last_detected_gesture)]
          <= gesture_state_cooldown_time

\* C30 as claimed: a call_sign frame less than 6.0 s after a call_sign
\* frame that was accepted has no effect.  Spec violates it: the second
\* frame toggles camera_paused again.
C30_AsClaimed ==
    [][/\ FrameStep
       /\ ~exit_initiated
       /\ detected_gesture = "call_sign" /\ result = "continue"
       /\ detected_gesture' = "call_sign"
       /\ now' - now < call_sign_cooldown
       => camera_paused' = camera_paused]_vars

----------------------------------------------------------------------------
(* The tracker while paused, and its bookkeeping *)

C33_ActiveIsLast ==
    /\ \/ active_gestures = EmptyDict /\ last_detected_gesture = NoGesture
       \/ DOMAIN active_gestures = {last_detected_gesture}
    /\ last_detected_gesture \in continuous_gestures
           => last_detected_gesture \in DOMAIN active_gestures

\* One continuous gesture has been stopped and another is active.
C33_Witness ==
    /\ last_gesture_end_time # NoTime
    /\ DOMAIN active_gestures = {last_detected_gesture}
    /\ last_gesture_time # EmptyDict

\* C34: a held or ended event is emitted only for a label that is started:
\* one for which a started event was emitted and no ended event since.  The
\* active labels are those: a held event is emitted only for the label of
\* the frame and only if it is active, an ended event only for the active
\* label, which it deactivates; a label becomes active only on a frame that
\* emits its started event, and stays active only on a frame that does not
\* emit its ended event.
C34_StartedBefore ==
    [][/\ ~FrameStep => active_gestures' = active_gestures
       /\ FrameStep =>
            /\ \A k \in 1 .. Len(dispatched') :
                  /\ dispatched'[k].gestureState = "held"
                        => /\ detected_gesture' \in DOMAIN active_gestures
                           /\ Emitted(dispatched', detected_gesture', "held")
                  /\ dispatched'[k].gestureState = "ended"
                        => /\ last_detected_gesture \in DOMAIN active_gestures
                           /\ Emitted(dispatched', last_detected_gesture, "ended")
                           /\ last_detected_gesture \notin DOMAIN active_gestures'
            /\ \A L \in DOMAIN active_gestures' \ DOMAIN active_gestures :
                  Emitted(dispatched', L, "started")
            /\ \A L \in DOMAIN active_gestures \cap DOMAIN active_gestures' :
                  ~Emitted(dispatched', L, "ended")]_vars

\* A label that was started, ended and started again is held.
C34_Witness ==
    /\ last_gesture_end_time # NoTime
    /\ detected_gesture \in DOMAIN active_gestures
    /\ Emitted(dispatched, detected_gesture, "held")

\* C35 as claimed: with the tracker neither paused nor exiting, a label
\* that was started and is detected no more gets its ended event.  No ended
\* event is emitted for a label that is not active (C34), so the frame on
\* which a label stops being active must emit it.  Spec violates it: the
\* frame on which another continuous label replaces it emits only the
\* started event of the other.
C35_AsClaimed ==
    [][FrameStep /\ Tracking =>
          \A L \in DOMAIN active_gestures \ DOMAIN active_gestures' :
              \E k \in 1 .. Len(dispatched') : dispatched'[k] = Event(L, "ended")]_vars

\* The pose of the call sign: thumb and pinky extended, the others folded.
CallSignPose == [i \in Fingers |-> i \in {0, 4}]

\* C36 as claimed: in the pipeline a frame whose hand pose is the call
\* sign, exit not being initiated, flips camera_paused.  SpecPipeline
\* violates it: the pose is classified "call", which the tracker takes for a
\* continuous gesture; no label of the classifier is "call_sign".
C36_AsClaimed ==
    [][/\ FrameStep
       /\ ~exit_initiated
       /\ raw_gesture' = classify_gesture(CallSignPose, FALSE, "level", FALSE, FALSE)
       /\ detected_gesture' = raw_gesture'
       => camera_paused' = ~camera_paused]_vars

----------------------------------------------------------------------------
(* The wave detector *)

\* A step that is a detect_wave call.
WaveCall == now' > now

\* C16: detect_wave never returns True less than 2.0 s after it last
\* returned True.
C16_WaveCooldown ==
    [][WaveCall /\ wave_result' /\ wave_detected_at # NoTime
          => now' - wave_detected_at >= wave_cooldown]_vars

\* detect_wave has returned True for the second time.
C16_Witness == wave_result /\ wave_detections = 2

\* C17 as claimed: from the empty window, the sixth of six samples whose
\* five displacements are 0.1 wide and alternate in sign is a detection.
\* SpecWave violates it: the window holds seven samples before it is examined.
C17_AsClaimed == script = 6 => wave_result

\* C17, corrected: from the empty window, wave_frames = 7 samples whose six
\* displacements are 0.1 wide and alternate in sign give no detection on
\* the first six and a detection on the seventh; the same samples again
\* within 2.0 s of it give none; and the same samples once more, the first
\* of them 2.0 s later, give a detection on the seventh again and none before.
C17_WaveScenario ==
    /\ script \in 1 .. wave_frames - 1 => ~wave_result
    /\ script = wave_frames => wave_result
    /\ script \in wave_frames + 1 .. 2 * wave_frames => ~wave_result
    /\ script \in 2 * wave_frames + 1 .. 3 * wave_frames - 1 => ~wave_result
    /\ script = 3 * wave_frames => wave_result

\* The scenario has been played to its end.
C17_Witness == script = WaveScriptLen /\ wave_result /\ wave_detections = 2

\* What C18 takes for the detection condition: among all displacements of
\* the window, two consecutive ones of opposite sign and both above the
\* threshold, and at least two above the threshold.
C18_ClaimedPattern(w) ==
    LET m == wave_movements(w)
    IN /\ \E i \in 2 .. Len(m) :
              /\ m[i - 1] * m[i] < 0
              /\ Abs(m[i - 1]) > wave_threshold
              /\ Abs(m[i]) > wave_threshold
       /\ Cardinality({i \in 1 .. Len(m) : Abs(m[i]) > wave_threshold}) >= 2

\* C18 as claimed: a call outside the cooldown that brings the window to
\* wave_frames samples returns True exactly when the window's displacements
\* meet the condition above.  SpecWave violates it: the first displacement
\* of the window is not among those the code counts.
C18_AsClaimed ==
    [][/\ WaveCall
       /\ ~wave_in_cooldown(last_wave_time, now')
       /\ Len(hand_positions) >= wave_frames - 1
       => wave_result' = C18_ClaimedPattern(wave_appended(hand_positions, wave_x'))]_vars

\* C25 as claimed: a call during the cooldown returns False and still
\* appends its sample to the window, bounded to the latest wave_frames.
\* SpecWave violates it: the cooldown return comes before the append.
C25_AsClaimed ==
    [][WaveCall /\ wave_in_cooldown(last_wave_time, now')
          => /\ ~wave_result'
             /\ hand_positions' = LastOf(Append(hand_positions, wave_x'), wave_frames)]_vars

\* C26: the window never holds more than wave_frames samples; a call that
\* returns True leaves it empty and sets last_wave_time to the time of the
\* call; a call outside the cooldown that returns False leaves in it the
\* latest wave_frames samples it was given, the current one last, in the
\* order they came, and leaves last_wave_time alone.
C26_WindowAfterCall ==
    [][WaveCall
          => /\ Len(hand_positions') <= wave_frames
             /\ wave_result' => hand_positions' = <<>> /\ last_wave_time' = now'
             /\ ~wave_result' /\ ~wave_in_cooldown(last_wave_time, now')
                   => /\ hand_positions'
                           = LastOf(Append(hand_positions, wave_x'), wave_frames)
                      /\ last_wave_time' = last_wave_time]_vars

\* After a detection and its cooldown, the window has been filled again
\* and examined without a detection.
C26_Witness ==
    wave_detections = 1 /\ ~wave_result /\ Len(hand_positions) = wave_frames

----------------------------------------------------------------------------
(* The smoother *)

\* The labels the specification calls mutually confusable.
Confusable(x, y) == x # y /\ {x, y} \subseteq {"fist", "thumbs_up", "thumbs_down"}

\* The labels of the three latest history entries, oldest first.
LastThree == [i \in 1 .. 3 |-> gesture_history[Len(gesture_history) - 3 + i][1]]

\* C19: when the three latest history entries, the current one included
\* and all within the last second, are (a, b, c) with c # b, c confusable
\* with b and b confusable with a, _smooth_gesture returns b; so
\* thumbs_up, fist, thumbs_up returns fist on the third call.
C19_SmoothingRule ==
    smooth_input # NoGesture /\ Len(gesture_history) >= 3 =>
        /\ \A i \in 1 .. Len(gesture_history) : gesture_history[i][2] > now - smooth_window
        /\ LastThree[3] = smooth_input
        /\ LastThree[3] # LastThree[2]
             /\ Confusable(LastThree[3], LastThree[2])
             /\ Confusable(LastThree[2], LastThree[1])
             => smooth_result = LastThree[2]

\* thumbs_up, fist, thumbs_up within a second: the third call returned fist.
C19_Witness ==
    /\ smooth_input = "thumbs_up"
    /\ Len(gesture_history) >= 3
    /\ LastThree = <<"thumbs_up", "fist", "thumbs_up">>
    /\ smooth_result = "fist"

\* C27: _smooth_gesture returns its input or the label of the history
\* entry before the current one; what it returns differs from its input only
\* when both are among fist, thumbs_up and thumbs_down; with no label as
\* input, or fewer than 3 history entries within the last second, it returns
\* its input; and the history never holds an entry without a label, an entry
\* as old as 1.0 s, or more than gesture_history_size entries.
C27_SmootherContract ==
    /\ \/ smooth_result = smooth_input
       \/ /\ Len(gesture_history) >= 2
          /\ smooth_result = gesture_history[Len(gesture_history) - 1][1]
    /\ smooth_result # smooth_input
          => {smooth_input, smooth_result} \subseteq {"fist", "thumbs_up", "thumbs_down"}
    /\ smooth_input = NoGesture \/ Len(gesture_history) < 3 => smooth_result = smooth_input
    /\ \A i \in 1 .. Len(gesture_history) :
          /\ gesture_history[i][1] # NoGesture
          /\ gesture_history[i][2] > now - smooth_window
    /\ Len(gesture_history) <= gesture_history_size

\* The sixth call in a row, with a full history, returned another label
\* than the one it was given.
C27_Witness ==
    /\ calls = 6
    /\ Len(gesture_history) = gesture_history_size
    /\ smooth_result # smooth_input

\* C37 as claimed: when the history holds labels of fist, thumbs_up and
\* thumbs_down only and the three latest calls came 0.05 s apart, what the
\* three calls returned is never x, y, x with x # y.  SpecSmoother violates
\* it: the history holds what was given, not what was returned, so an
\* alternating input comes out alternating, one call late.
C37_AsClaimed ==
    LET n == Len(gesture_history) IN
    /\ Len(smooth_results) = 3
    /\ n >= 3
    /\ \A i \in 1 .. n : gesture_history[i][1] \in {"fist", "thumbs_up", "thumbs_down"}
    /\ \A i \in 0 .. 2 : gesture_history[n - i][2] = now - i
    => ~(smooth_results[1] = smooth_results[3] /\ smooth_results[1] # smooth_results[2])

\* C20 as claimed: the tracker receives the smoother's output for the raw
\* label, so the third of the raw labels thumbs_up, fist, thumbs_up, each
\* 0.05 s after the one before, reaches it as fist.
\* SpecPipeline violates it: the smoother is never called, and the tracker
\* receives thumbs_up.
C20_AsClaimed == flicker = 3 => detected_gesture = "fist"

----------------------------------------------------------------------------
(* The classifier *)

\* The label set of the specification.
ClosedLabelSet ==
    {"fist", "open_palm", "thumbs_up", "thumbs_down", "peace", "call_sign", "pointing",
     "l_shape", "rock", "three_fingers", "three_fingers_v2", "middle_finger",
     "ring_finger", "pinky", "two_fingers_ir", "two_fingers_mr", "four_fingers", "ok",
     "pinch", "spock", "wave"}

\* Exactly the fingers of the set s are extended.
ExactlyUp(s) == \A i \in Fingers : fingers_up[i] <=> i \in s

\* C21 as claimed: whatever classify_gesture returns, if not None, is a
\* label of the closed set.  SpecClassifier violates it: thumb and pinky
\* give "call", and thumb, index and middle give "three_fingers_serbian_style".
C21_AsClaimed == classified # NoGesture => classified \in ClosedLabelSet

\* C22 as claimed: no wave, exactly thumb and index extended, their tips
\* less than 0.05 apart: pinch.  SpecClassifier violates it: the L shape
\* rule comes first.
C22_AsClaimed ==
    ~wave_reported /\ ExactlyUp({0, 1}) /\ thumb_index_close => classified = "pinch"

\* C23 as claimed: no wave, exactly index and middle extended, their tips
\* more than 0.08 apart: spock.  SpecClassifier violates it: the peace rule
\* comes first.
C23_AsClaimed ==
    ~wave_reported /\ ExactlyUp({1, 2}) /\ index_middle_separated => classified = "spock"

\* C24 as claimed: no wave, thumb, index and middle extended, ring and
\* pinky not: three_fingers_v2.  SpecClassifier violates it: the first rule
\* does fire, and returns "three_fingers_serbian_style".
C24_AsClaimed ==
    ~wave_reported /\ ExactlyUp({0, 1, 2}) => classified = "three_fingers_v2"

\* Of index, middle, ring and pinky, exactly the finger i is extended.
OnlyOfFour(i) == \A j \in 1 .. 4 : fingers_up[j] <=> j = i

\* C28 as claimed: each single finger label is returned only when that
\* finger is the only extended one of the five.  SpecClassifier violates
\* it: thumb and middle extended give middle_finger.
C28_AsClaimed ==
    /\ classified = "middle_finger" => ExactlyUp({2})
    /\ classified = "ring_finger" => ExactlyUp({3})
    /\ classified = "pinky" => ExactlyUp({4})
    /\ classified = "pointing" => ExactlyUp({1})

\* C28, amended: middle_finger is returned only when the middle finger is
\* the only extended one of index, middle, ring and pinky, and ring_finger
\* only when the ring finger is, the thumb being extended or not; pinky and
\* pointing are returned only when the pinky, the index, is the only
\* extended finger of the five; and without a wave each of these vectors
\* gives its label.
C28_SingleFingerRules ==
    /\ classified = "middle_finger" <=> ~wave_reported /\ OnlyOfFour(2)
    /\ classified = "ring_finger" <=> ~wave_reported /\ OnlyOfFour(3)
    /\ classified = "pinky" <=> ~wave_reported /\ ExactlyUp({4})
    /\ classified = "pointing" <=> ~wave_reported /\ ExactlyUp({1})

C28_Witness == classified = "middle_finger" /\ fingers_up[0]

====
